---- MODULE Spec2Model ----
(***************************************************************************)
(* Model of mediaplayer.cpp: main() builds the pipeline                    *)
(* source -> videoconvert -> filter -> videosink, links everything but the *)
(* source, connects pad_added_handler and runs the bus-message loop.       *)
(* pad_added_handler runs on a streaming thread of the framework and is    *)
(* interleaved with main().                                                *)
(***************************************************************************)
EXTENDS Integers, Sequences, FiniteSets, TLC

(* Bounds of the model *)
MaxIter == 3        \* iterations of the do-while loop
MaxPads == 4        \* pad-added emissions of the source

(* ---------------------------------------------------------------------- *)
(* Values                                                                  *)
(* ---------------------------------------------------------------------- *)
Elements == {"pipeline", "source", "videoconvert", "videosink", "filter"}

RawVideoPrefix == "video/x-raw"

\* media-type names a decoded pad of uridecodebin can carry
PadTypes == {"video/x-raw", "video/x-raw-yuv", "video/x-h264",
             "audio/x-raw", "text/x-raw"}

NoPad == "none"

StateChangeReturns == {"FAILURE", "SUCCESS", "ASYNC", "NO_PREROLL"}

NoMsg == [type |-> "NULL", src |-> "none"]

\* what gst_bus_timed_pop_filtered can hand back under the filter
\* STATE_CHANGED | ERROR | EOS
BusMessages == {[type |-> "ERROR", src |-> "element"],
                [type |-> "EOS", src |-> "pipeline"],
                [type |-> "STATE_CHANGED", src |-> "pipeline"],
                [type |-> "STATE_CHANGED", src |-> "element"],
                NoMsg}

VARIABLES
    pc,              \* position of main()
    data,            \* CustomData: element |-> created (non-NULL)
    pipelineUnrefs,  \* gst_object_unref(data.pipeline) calls
    pipelineState,   \* state last requested of the pipeline
    links,           \* static links made by gst_element_link
    handlerConnected,\* pad-added connected to pad_added_handler
    ret,             \* result of the last gst_element_set_state(PLAYING)
    playRequests,    \* gst_element_set_state(PLAYING) calls
    busAcquired,     \* gst_element_get_bus calls
    busReleased,     \* gst_object_unref(bus) calls
    polls,           \* gst_bus_timed_pop_filtered calls
    msg,             \* message popped in this iteration
    terminate,
    processed,       \* message type |-> messages dispatched by the switch
    seeks,           \* gst_element_seek calls: <<[position, ok]>>
    returned,        \* <<>> while running, <<code>> once main returned
    failure,         \* which fatal failure was detected, if any
    hpc,             \* position of pad_added_handler
    new_pad,         \* media type of the pad being handled
    new_pad_caps,    \* TRUE iff new_pad_caps # NULL
    padEvents,       \* pad-added emissions so far
    unhandledPads,   \* emissions that found no handler connected
    sinkPeer,        \* peer of videoconvert's sink pad (NoPad if unlinked)
    linkAttempts,    \* gst_pad_link calls
    linksMade,       \* gst_pad_link calls that succeeded
    padRefs,         \* [acquired, released] refs on videoconvert's sink pad
    capsRefs,        \* [acquired, released] refs on the new pad's caps
    paths            \* paths pad_added_handler has taken

mainVars == <<pc, data, pipelineUnrefs, pipelineState, links,
              handlerConnected, ret, playRequests, busAcquired, busReleased,
              polls, msg, terminate, processed, seeks, returned, failure>>
handlerVars == <<hpc, new_pad, new_pad_caps, padEvents, unhandledPads,
                 sinkPeer, linkAttempts, linksMade, padRefs, capsRefs, paths>>
vars == <<mainVars, handlerVars>>

(* ---------------------------------------------------------------------- *)
(* Pure helpers                                                            *)
(* ---------------------------------------------------------------------- *)
\* g_str_has_prefix(str, prefix)
HasPrefix(str, prefix) ==
    /\ Len(str) >= Len(prefix)
    /\ SubSeq(str, 1, Len(prefix)) = prefix

IsRawVideoLoose(type) == HasPrefix(type, "video/")

\* line 180: g_str_has_prefix(new_pad_type, "video/x-raw")
IsRawVideo(type) == HasPrefix(type, RawVideoPrefix)

PadIsLinkedNever(peer) == FALSE

\* line 170: gst_pad_is_linked(video_sink_pad)
PadIsLinked(peer) == peer # NoPad

WhileCondInverted(term) == term

\* line 147: while (!terminate)
WhileCond(term) == ~term

PipelineAlive == data["pipeline"] /\ pipelineUnrefs = 0

Running == returned = <<>>

(* ---------------------------------------------------------------------- *)
(* Initial state: main() entered, nothing created                          *)
(* ---------------------------------------------------------------------- *)
Init ==
    /\ pc = "create"
    /\ data = [e \in Elements |-> FALSE]
    /\ pipelineUnrefs = 0
    /\ pipelineState = "NULL"
    /\ links = {}
    /\ handlerConnected = FALSE
    /\ ret = "SUCCESS"
    /\ playRequests = 0
    /\ busAcquired = 0
    /\ busReleased = 0
    /\ polls = 0
    /\ msg = NoMsg
    /\ terminate = FALSE
    /\ processed = [t \in {"ERROR", "EOS", "STATE_CHANGED"} |-> 0]
    /\ seeks = <<>>
    /\ returned = <<>>
    /\ failure = "none"
    /\ hpc = "idle"
    /\ new_pad = NoPad
    /\ new_pad_caps = FALSE
    /\ padEvents = 0
    /\ unhandledPads = 0
    /\ sinkPeer = NoPad
    /\ linkAttempts = 0
    /\ linksMade = 0
    /\ padRefs = [acquired |-> 0, released |-> 0]
    /\ capsRefs = [acquired |-> 0, released |-> 0]
    /\ paths = {}

(* ---------------------------------------------------------------------- *)
(* main()                                                                  *)
(* ---------------------------------------------------------------------- *)
\* lines 43-57: create the elements and the pipeline; any NULL is fatal
CreateElements ==
    /\ pc = "create"
    /\ \E made \in [Elements -> BOOLEAN] :
          /\ data' = made
          /\ IF \E e \in Elements : ~made[e]
             THEN /\ failure' = "create"
                  /\ returned' = <<-1>>
                  /\ pc' = "done"
             ELSE /\ pc' = "link_cf"
                  /\ UNCHANGED <<failure, returned>>
    /\ UNCHANGED <<pipelineUnrefs, pipelineState, links, handlerConnected,
                   ret, playRequests, busAcquired, busReleased, polls, msg,
                   terminate, processed, seeks>>
    /\ UNCHANGED handlerVars

\* lines 60-69: gst_bin_add_many, then link videoconvert -> filter
LinkConvertFilter ==
    /\ pc = "link_cf"
    /\ \E ok \in BOOLEAN :
          IF ok
          THEN /\ links' = links \cup {<<"videoconvert", "filter">>}
               /\ pc' = "link_fs"
               /\ UNCHANGED <<pipelineUnrefs, failure, returned>>
          ELSE /\ pipelineUnrefs' = pipelineUnrefs + 1
               /\ failure' = "link"
               /\ returned' = <<-1>>
               /\ pc' = "done"
               /\ UNCHANGED links
    /\ UNCHANGED <<data, pipelineState, handlerConnected, ret, playRequests,
                   busAcquired, busReleased, polls, msg, terminate,
                   processed, seeks>>
    /\ UNCHANGED handlerVars

LinkFilterSinkUnchecked ==
    /\ pc = "link_fs"
    /\ \E ok \in BOOLEAN :
          /\ links' = IF ok THEN links \cup {<<"filter", "videosink">>}
                            ELSE links
          /\ pc' = "connect"
    /\ UNCHANGED <<data, pipelineUnrefs, failure, returned, pipelineState,
                   handlerConnected, ret, playRequests, busAcquired,
                   busReleased, polls, msg, terminate, processed, seeks>>
    /\ UNCHANGED handlerVars

\* lines 70-76: link filter -> videosink
LinkFilterSink ==
    /\ pc = "link_fs"
    /\ \E ok \in BOOLEAN :
          IF ok
          THEN /\ links' = links \cup {<<"filter", "videosink">>}
               /\ pc' = "connect"
               /\ UNCHANGED <<pipelineUnrefs, failure, returned>>
          ELSE /\ pipelineUnrefs' = pipelineUnrefs + 1
               /\ failure' = "link"
               /\ returned' = <<-1>>
               /\ pc' = "done"
               /\ UNCHANGED links
    /\ UNCHANGED <<data, pipelineState, handlerConnected, ret, playRequests,
                   busAcquired, busReleased, polls, msg, terminate,
                   processed, seeks>>
    /\ UNCHANGED handlerVars

\* lines 78-82: set the uri, connect pad_added_handler to pad-added
ConnectSignal ==
    /\ pc = "connect"
    /\ handlerConnected' = TRUE
    /\ pc' = "set_playing"
    /\ UNCHANGED <<data, pipelineUnrefs, pipelineState, links, ret,
                   playRequests, busAcquired, busReleased, polls, msg,
                   terminate, processed, seeks, returned, failure>>
    /\ UNCHANGED handlerVars

\* lines 85-95: top of the loop, request PLAYING; FAILURE is fatal
SetPlaying ==
    /\ pc = "set_playing"
    /\ playRequests < MaxIter
    /\ playRequests' = playRequests + 1
    /\ pipelineState' = "PLAYING"
    /\ \E r \in StateChangeReturns :
          /\ ret' = r
          /\ IF r = "FAILURE"
             THEN /\ pipelineUnrefs' = pipelineUnrefs + 1
                  /\ failure' = "playing"
                  /\ returned' = <<-1>>
                  /\ pc' = "done"
             ELSE /\ pc' = "get_bus"
                  /\ UNCHANGED <<pipelineUnrefs, failure, returned>>
    /\ UNCHANGED <<data, links, handlerConnected, busAcquired, busReleased,
                   polls, msg, terminate, processed, seeks>>
    /\ UNCHANGED handlerVars

\* line 98: bus = gst_element_get_bus(data.pipeline)
GetBus ==
    /\ pc = "get_bus"
    /\ busAcquired' = busAcquired + 1
    /\ pc' = "pop"
    /\ UNCHANGED <<data, pipelineUnrefs, pipelineState, links,
                   handlerConnected, ret, playRequests, busReleased, polls,
                   msg, terminate, processed, seeks, returned, failure>>
    /\ UNCHANGED handlerVars

\* lines 100-101: msg = gst_bus_timed_pop_filtered(bus, NONE, ...)
PopMessage ==
    /\ pc = "pop"
    /\ polls' = polls + 1
    /\ \E m \in BusMessages : msg' = m
    /\ pc' = "dispatch"
    /\ UNCHANGED <<data, pipelineUnrefs, pipelineState, links,
                   handlerConnected, ret, playRequests, busAcquired,
                   busReleased, terminate, processed, seeks, returned,
                   failure>>
    /\ UNCHANGED handlerVars

\* the bottom of the loop: gst_message_unref(msg) and the while test
LoopTest(term) == IF WhileCond(term) THEN "set_playing" ELSE "cleanup"

HandleErrorNoTerminate ==
    /\ pc = "dispatch"
    /\ msg.type = "ERROR"
    /\ processed' = [processed EXCEPT !["ERROR"] = @ + 1]
    /\ msg' = NoMsg
    /\ pc' = LoopTest(terminate)
    /\ UNCHANGED <<data, pipelineUnrefs, pipelineState, links,
                   handlerConnected, ret, playRequests, busAcquired,
                   busReleased, polls, seeks, returned, failure, terminate>>
    /\ UNCHANGED handlerVars

\* lines 111-118, 145-147: case GST_MESSAGE_ERROR
HandleError ==
    /\ pc = "dispatch"
    /\ msg.type = "ERROR"
    /\ terminate' = TRUE
    /\ processed' = [processed EXCEPT !["ERROR"] = @ + 1]
    /\ msg' = NoMsg
    /\ pc' = LoopTest(terminate')
    /\ UNCHANGED <<data, pipelineUnrefs, pipelineState, links,
                   handlerConnected, ret, playRequests, busAcquired,
                   busReleased, polls, seeks, returned, failure>>
    /\ UNCHANGED handlerVars

HandleEOSRetry ==
    /\ pc = "dispatch"
    /\ msg.type = "EOS"
    /\ terminate' = FALSE
    /\ \E ok \in BOOLEAN :
          seeks' = IF ok
                   THEN Append(seeks, [position |-> 0, ok |-> TRUE])
                   ELSE seeks \o <<[position |-> 0, ok |-> FALSE],
                                   [position |-> 0, ok |-> FALSE]>>
    /\ processed' = [processed EXCEPT !["EOS"] = @ + 1]
    /\ msg' = NoMsg
    /\ pc' = LoopTest(terminate')
    /\ UNCHANGED <<data, pipelineUnrefs, pipelineState, links,
                   handlerConnected, ret, playRequests, busAcquired,
                   busReleased, polls, returned, failure>>
    /\ UNCHANGED handlerVars

\* lines 119-129, 145-147: case GST_MESSAGE_EOS, seek back to 0
HandleEOS ==
    /\ pc = "dispatch"
    /\ msg.type = "EOS"
    /\ terminate' = FALSE
    /\ \E ok \in BOOLEAN :
          seeks' = Append(seeks, [position |-> 0, ok |-> ok])
    /\ processed' = [processed EXCEPT !["EOS"] = @ + 1]
    /\ msg' = NoMsg
    /\ pc' = LoopTest(terminate')
    /\ UNCHANGED <<data, pipelineUnrefs, pipelineState, links,
                   handlerConnected, ret, playRequests, busAcquired,
                   busReleased, polls, returned, failure>>
    /\ UNCHANGED handlerVars

HandleStateChangedSeeks ==
    /\ pc = "dispatch"
    /\ msg.type = "STATE_CHANGED"
    /\ seeks' = Append(seeks, [position |-> 0, ok |-> TRUE])
    /\ processed' = [processed EXCEPT !["STATE_CHANGED"] = @ + 1]
    /\ msg' = NoMsg
    /\ pc' = LoopTest(terminate)
    /\ UNCHANGED <<data, pipelineUnrefs, pipelineState, links,
                   handlerConnected, ret, playRequests, busAcquired,
                   busReleased, polls, terminate, returned, failure>>
    /\ UNCHANGED handlerVars

\* lines 130-139, 145-147: case GST_MESSAGE_STATE_CHANGED, only logged
\* (and only when the message comes from the pipeline)
HandleStateChanged ==
    /\ pc = "dispatch"
    /\ msg.type = "STATE_CHANGED"
    /\ processed' = [processed EXCEPT !["STATE_CHANGED"] = @ + 1]
    /\ msg' = NoMsg
    /\ pc' = LoopTest(terminate)
    /\ UNCHANGED <<data, pipelineUnrefs, pipelineState, links,
                   handlerConnected, ret, playRequests, busAcquired,
                   busReleased, polls, seeks, terminate, returned, failure>>
    /\ UNCHANGED handlerVars

\* lines 104, 146-147: msg == NULL, the switch is skipped
HandleNoMessage ==
    /\ pc = "dispatch"
    /\ msg.type = "NULL"
    /\ pc' = LoopTest(terminate)
    /\ UNCHANGED <<data, pipelineUnrefs, pipelineState, links,
                   handlerConnected, ret, playRequests, busAcquired,
                   busReleased, polls, msg, seeks, terminate, processed,
                   returned, failure>>
    /\ UNCHANGED handlerVars

\* lines 149-155: release the bus, set the pipeline to NULL, release it
Cleanup ==
    /\ pc = "cleanup"
    /\ busReleased' = busReleased + 1
    /\ pipelineState' = "NULL"
    /\ pipelineUnrefs' = pipelineUnrefs + 1
    /\ returned' = <<0>>
    /\ pc' = "done"
    /\ UNCHANGED <<data, links, handlerConnected, ret, playRequests,
                   busAcquired, polls, msg, terminate, processed, seeks,
                   failure>>
    /\ UNCHANGED handlerVars

(* ---------------------------------------------------------------------- *)
(* pad_added_handler                                                       *)
(* ---------------------------------------------------------------------- *)
\* The source emits pad-added once the pipeline has been asked to leave
\* NULL. A connected handler is entered (line 161 takes the reference on
\* videoconvert's sink pad, lines 163-165 clear the locals); with no
\* handler connected the emission is lost.
PadAdded ==
    /\ hpc = "idle"
    /\ Running
    /\ PipelineAlive
    /\ pipelineState = "PLAYING"
    /\ padEvents < MaxPads
    /\ padEvents' = padEvents + 1
    /\ \E type \in PadTypes :
          IF handlerConnected
          THEN /\ new_pad' = type
               /\ new_pad_caps' = FALSE
               /\ padRefs' = [padRefs EXCEPT !.acquired = @ + 1]
               /\ hpc' = "check_linked"
               /\ UNCHANGED unhandledPads
          ELSE /\ unhandledPads' = unhandledPads + 1
               /\ UNCHANGED <<new_pad, new_pad_caps, padRefs, hpc>>
    /\ UNCHANGED <<sinkPeer, linkAttempts, linksMade, capsRefs, paths>>
    /\ UNCHANGED mainVars

\* lines 169-174: already linked -> goto exit
CheckLinked ==
    /\ hpc = "check_linked"
    /\ IF PadIsLinked(sinkPeer)
       THEN /\ paths' = paths \cup {"already_linked"}
            /\ hpc' = "exit"
       ELSE /\ hpc' = "check_type"
            /\ UNCHANGED paths
    /\ UNCHANGED <<new_pad, new_pad_caps, padEvents, unhandledPads, sinkPeer,
                   linkAttempts, linksMade, padRefs, capsRefs>>
    /\ UNCHANGED mainVars

\* lines 176-184: take the caps, not raw video -> goto exit
CheckType ==
    /\ hpc = "check_type"
    /\ new_pad_caps' = TRUE
    /\ capsRefs' = [capsRefs EXCEPT !.acquired = @ + 1]
    /\ IF ~IsRawVideo(new_pad)
       THEN /\ paths' = paths \cup {"not_raw"}
            /\ hpc' = "exit"
       ELSE /\ hpc' = "link"
            /\ UNCHANGED paths
    /\ UNCHANGED <<new_pad, padEvents, unhandledPads, sinkPeer, linkAttempts,
                   linksMade, padRefs>>
    /\ UNCHANGED mainVars

\* lines 186-195: gst_pad_link(new_pad, video_sink_pad)
AttemptLink ==
    /\ hpc = "link"
    /\ linkAttempts' = linkAttempts + 1
    /\ \E ok \in BOOLEAN :
          IF ok
          THEN /\ sinkPeer' = new_pad
               /\ linksMade' = linksMade + 1
               /\ paths' = paths \cup {"link_ok"}
          ELSE /\ paths' = paths \cup {"link_failed"}
               /\ UNCHANGED <<sinkPeer, linksMade>>
    /\ hpc' = "exit"
    /\ UNCHANGED <<new_pad, new_pad_caps, padEvents, unhandledPads, padRefs,
                   capsRefs>>
    /\ UNCHANGED mainVars

HandlerExitKeepsCaps ==
    /\ hpc = "exit"
    /\ padRefs' = [padRefs EXCEPT !.released = @ + 1]
    /\ new_pad' = NoPad
    /\ new_pad_caps' = FALSE
    /\ hpc' = "idle"
    /\ UNCHANGED <<padEvents, unhandledPads, sinkPeer, linkAttempts,
                   linksMade, paths, capsRefs>>
    /\ UNCHANGED mainVars

\* lines 197-204: unref the caps if we got them, unref the sink pad
HandlerExit ==
    /\ hpc = "exit"
    /\ capsRefs' = IF new_pad_caps
                   THEN [capsRefs EXCEPT !.released = @ + 1]
                   ELSE capsRefs
    /\ padRefs' = [padRefs EXCEPT !.released = @ + 1]
    /\ new_pad' = NoPad
    /\ new_pad_caps' = FALSE
    /\ hpc' = "idle"
    /\ UNCHANGED <<padEvents, unhandledPads, sinkPeer, linkAttempts,
                   linksMade, paths>>
    /\ UNCHANGED mainVars

(* ---------------------------------------------------------------------- *)
(* Specification                                                           *)
(* ---------------------------------------------------------------------- *)
Next ==
    \/ CreateElements
    \/ LinkConvertFilter
    \/ LinkFilterSink
    \/ ConnectSignal
    \/ SetPlaying
    \/ GetBus
    \/ PopMessage
    \/ HandleError
    \/ HandleEOS
    \/ HandleStateChanged
    \/ HandleNoMessage
    \/ Cleanup
    \/ PadAdded
    \/ CheckLinked
    \/ CheckType
    \/ AttemptLink
    \/ HandlerExit

Spec == Init /\ [][Next]_vars

(* ---------------------------------------------------------------------- *)
(* Properties                                                              *)
(* ---------------------------------------------------------------------- *)
\* the pad types of PadTypes whose name starts with "video/x-raw"
RawTypes == {"video/x-raw", "video/x-raw-yuv"}

StaticChain == {<<"videoconvert", "filter">>, <<"filter", "videosink">>}

AllPaths == {"already_linked", "not_raw", "link_ok", "link_failed"}

\* C1: a pad whose media type does not start with "video/x-raw" is never
\* linked: handling it while the converter's sink pad is unlinked makes no
\* link attempt and leaves the sink pad unlinked, and whatever is linked to
\* the converter is raw video.
C1_NonRawNeverLinked ==
    /\ [](sinkPeer # NoPad => sinkPeer \in RawTypes)
    /\ [](hpc = "link" => new_pad \in RawTypes)
    /\ [][(hpc = "check_type" /\ new_pad \notin RawTypes)
            => (hpc' # "link" /\ linkAttempts' = linkAttempts
                /\ sinkPeer' = sinkPeer)]_vars

C1_Witness ==
    /\ "not_raw" \in paths
    /\ hpc = "idle"
    /\ sinkPeer = NoPad
    /\ linkAttempts = 0

\* C2: the source-to-converter link is established at most once: once the
\* converter's sink pad is linked, no pad-added event makes a link attempt
\* or changes the link, whatever the type of the new pad.
C2_LinkAtMostOnce ==
    /\ [](linksMade <= 1)
    /\ [](sinkPeer # NoPad => hpc \notin {"check_type", "link"})
    /\ [][sinkPeer # NoPad
            => (sinkPeer' = sinkPeer /\ linkAttempts' = linkAttempts
                /\ linksMade' = linksMade)]_vars

C2_Witness ==
    /\ "already_linked" \in paths
    /\ hpc = "idle"
    /\ linksMade = 1
    /\ padEvents >= 2

\* C3: the number of seek requests equals the number of end-of-stream
\* messages processed, every seek goes to position 0, and processing an
\* error or state-changed message issues no seek.
C3_SeekOncePerEOS ==
    /\ [](Len(seeks) = processed["EOS"])
    /\ [](\A i \in 1..Len(seeks) : seeks[i].position = 0)
    /\ [][(pc = "dispatch" /\ msg.type # "EOS") => seeks' = seeks]_vars

C3_Witness ==
    /\ processed["EOS"] = 2
    /\ processed["STATE_CHANGED"] = 1
    /\ Len(seeks) = 2

\* C4: once an error message has been processed the loop exits: no further
\* poll, PLAYING request or seek happens, and main returns 0 with the
\* pipeline set to NULL and released.
C4_ErrorTerminates ==
    /\ [](processed["ERROR"] > 0 => pc \in {"cleanup", "done"})
    /\ []((pc = "done" /\ processed["ERROR"] > 0)
            => (pipelineState = "NULL" /\ pipelineUnrefs = 1
                /\ returned = <<0>>))
    /\ [][processed["ERROR"] > 0
            => (polls' = polls /\ playRequests' = playRequests
                /\ seeks' = seeks)]_vars

C4_Witness ==
    /\ pc = "done"
    /\ processed["ERROR"] = 1
    /\ pipelineUnrefs = 1
    /\ polls >= 2

\* C5: when the seek issued for an end-of-stream message fails, exactly one
\* seek was issued for that message, terminate is false and the loop goes
\* on with the next PLAYING request.
C5_FailedSeekNotRetried ==
    [][(pc = "dispatch" /\ msg.type = "EOS" /\ pc' # "dispatch"
        /\ ~seeks'[Len(seeks')].ok)
         => (Len(seeks') = Len(seeks) + 1 /\ ~terminate'
             /\ pc' = "set_playing")]_vars

C5_Witness ==
    /\ pc = "dispatch"
    /\ polls = 2
    /\ Len(seeks) = 1
    /\ ~seeks[1].ok
    /\ ~terminate

\* C6: after a fatal failure (creation, static link, PLAYING request) main
\* returns a non-zero code and the pipeline, if it was created, has been
\* released.
C6_FatalFailureReleasesPipeline ==
    (pc = "done" /\ failure # "none")
        => (/\ returned = <<-1>>
            /\ (data["pipeline"] => pipelineUnrefs = 1))

\* C7: the loop ends only after an error message was processed or a PLAYING
\* request failed; processing an end-of-stream or state-changed message is
\* followed by the next PLAYING request.
C7_LoopsUntilError ==
    /\ [](pc = "cleanup" => processed["ERROR"] > 0)
    /\ []((pc = "done" /\ playRequests > 0)
            => (processed["ERROR"] > 0 \/ ret = "FAILURE"))
    /\ [][(pc = "dispatch" /\ msg.type \in {"EOS", "STATE_CHANGED"}
           /\ pc' # "dispatch") => pc' = "set_playing"]_vars

C7_Witness ==
    /\ pc = "dispatch"
    /\ polls = 3
    /\ processed["EOS"] = 1
    /\ processed["STATE_CHANGED"] = 1

\* C8: PLAYING is never requested before both static links succeeded and the
\* handler is connected; the deferred link is only made on a linked
\* converter-filter-sink chain, and no pad-added emission finds the handler
\* missing.
C8_StartupOrdering ==
    /\ playRequests > 0 => (StaticChain \subseteq links /\ handlerConnected)
    /\ sinkPeer # NoPad => StaticChain \subseteq links
    /\ padEvents > 0 => handlerConnected
    /\ unhandledPads = 0

C8_Witness ==
    /\ sinkPeer # NoPad
    /\ playRequests > 0
    /\ StaticChain \subseteq links

\* C9: at exit every bus reference taken by the loop has been released.
C9_BusRefsBalanced ==
    pc = "done" => busAcquired - busReleased = 0

\* C10: pad_added_handler returns with reference counts balanced on every
\* path: while it runs it holds exactly one sink-pad reference and one caps
\* reference iff it took the caps; caps are only released when held.
C10_HandlerRefsBalanced ==
    /\ [](hpc = "idle" => (/\ padRefs.acquired = padRefs.released
                           /\ capsRefs.acquired = capsRefs.released))
    /\ [](hpc # "idle"
            => (/\ padRefs.acquired = padRefs.released + 1
                /\ capsRefs.acquired
                     = capsRefs.released + (IF new_pad_caps THEN 1 ELSE 0)))
    /\ [][capsRefs'.released # capsRefs.released
            => (new_pad_caps /\ capsRefs'.released = capsRefs.released + 1)]_vars

C10_Witness ==
    /\ paths = AllPaths
    /\ hpc = "idle"
    /\ padRefs.released = 4
    /\ capsRefs.released = 3

====
